---- MODULE Spec2Model ----
(***************************************************************************)
(* Model of uu/head/src/lines.rs: the iterators Lines (lines()) and ZLines *)
(* (zlines()) over a BufRead source.  Each pull allocates a fresh buffer   *)
(* and calls read_line / read_until(ZERO) on the source; the model follows *)
(* the fill_buf / memchr / consume loop those calls run, and the UTF-8      *)
(* check read_line applies to the bytes it appended.                       *)
(***************************************************************************)
EXTENDS Naturals, Sequences, FiniteSets

\* ---------------------------------------------------------------- bounds
\* Longest source content explored.
MaxLen == 3
\* Largest number of positions of the source at which a read fault is pending.
MaxFaults == 1
\* Largest number of bytes one fill_buf of the source hands out.
BufCap == 2

\* ------------------------------------------------------------- constants
\* const ZERO: u8 = 0, the delimiter of zlines.
ZERO == 0
\* b'\n', the delimiter read_line splits on.
NEWLINE == 10

\* Byte values explored: NUL, LF, CR, 'x', and 0xC3 0xA9 (the two bytes of a
\* two-byte UTF-8 scalar, each of them invalid UTF-8 when it stands alone).
Bytes == {0, 10, 13, 120, 195, 169}

\* The io::Error kinds a source may raise from fill_buf; read_until retries a
\* fill_buf that was interrupted and returns every other fault.
Interrupted == "Interrupted"
IoCauses == {"BrokenPipe", Interrupted}
\* The kind read_line reports for bytes that are not UTF-8.
InvalidData == "InvalidData"

VARIABLES
    iter,    \* which iterator wraps the source: "none", "lines" or "zlines"
    data,    \* the bytes the source holds
    pos,     \* the source's read position (bytes consumed so far)
    faults,  \* pending faults of the source: position -> io::Error kind
    last,    \* the Item the last pull returned (kind "NoPull" before any)
    prev,    \* the source's position when the last pull started
    raised,  \* the fault the source's read returned on the last pull, "" if none
    out,     \* the chunks of the pulls that returned Some(Ok(_)), in order,
             \* each with the source position its pull started at
    dropped  \* the indices of the bytes consumed by pulls that returned Some(Err(_))

vars == <<iter, data, pos, faults, last, prev, raised, out, dropped>>

\* ------------------------------------------------------------ sequences
SeqsUpTo(S, n) == UNION {[1..k -> S] : k \in 0..n}

Min(S) == CHOOSE x \in S : \A y \in S : x <= y

\* memchr(delim, s): index of the first delim in s, 0 when there is none.
Memchr(delim, s) ==
    IF \E i \in 1..Len(s) : s[i] = delim
    THEN Min({i \in 1..Len(s) : s[i] = delim})
    ELSE 0

\* ------------------------------------------------------ str::from_utf8
IsCont(b) == b >= 128 /\ b <= 191

RECURSIVE Utf8Valid(_)
Utf8Valid(s) ==
    IF s = <<>> THEN TRUE
    ELSE LET b == s[1]
             n == Len(s)
             \* width of the scalar that starts with b, 0 for no lead byte
             w == IF b < 128 THEN 1
                  ELSE IF b >= 194 /\ b <= 223 THEN 2
                  ELSE IF b >= 224 /\ b <= 239 THEN 3
                  ELSE IF b >= 240 /\ b <= 244 THEN 4
                  ELSE 0
             second == IF n >= 2 THEN s[2] ELSE 0
             secondOk == CASE b = 224 -> second >= 160 /\ second <= 191
                           [] b = 237 -> second >= 128 /\ second <= 159
                           [] b = 240 -> second >= 144 /\ second <= 191
                           [] b = 244 -> second >= 128 /\ second <= 143
                           [] OTHER   -> IsCont(second)
         IN  /\ w > 0
             /\ n >= w
             /\ w >= 2 => secondOk
             /\ \A i \in 3..w : IsCont(s[i])
             /\ Utf8Valid(SubSeq(s, w + 1, n))

\* ------------------------------------------------------------ the source
Ok(n) == [ok |-> TRUE, n |-> n, err |-> ""]
Err(e) == [ok |-> FALSE, n |-> 0, err |-> e]

\* Where the block fill_buf hands out at position p ends: at the end of the
\* data, after BufCap bytes, or just before the next pending fault.
BlockEnd(d, p, fs) ==
    Min({Len(d), p + BufCap} \cup {f \in DOMAIN fs : f > p})

\* BufRead::fill_buf at position p: the pending fault, or the bytes available.
FillBuf(d, p, fs) ==
    IF p \in DOMAIN fs
    THEN [ok |-> FALSE, err |-> fs[p], available |-> <<>>]
    ELSE [ok |-> TRUE, err |-> "", available |-> SubSeq(d, p + 1, BlockEnd(d, p, fs))]

\* A fault is raised once: the source forgets it when it has surfaced.
Surface(fs, p) == [f \in DOMAIN fs \ {p} |-> fs[f]]

\* read_until as BufRead::lines would have it: the delimiter is consumed but
\* left out of the buffer.
RECURSIVE ReadUntil_StripDelim(_, _, _, _, _, _)
ReadUntil_StripDelim(delim, d, p, fs, buf, read) ==
    LET fb == FillBuf(d, p, fs)
        i == Memchr(delim, fb.available)
        used == IF i > 0 THEN i ELSE Len(fb.available)
        nbuf == buf \o SubSeq(fb.available, 1, IF i > 0 THEN i - 1 ELSE used)
    IN  IF ~fb.ok /\ fb.err = Interrupted
        THEN ReadUntil_StripDelim(delim, d, p, Surface(fs, p), buf, read)
        ELSE IF ~fb.ok
        THEN [res |-> Err(fb.err), buf |-> buf, pos |-> p,
              faults |-> Surface(fs, p), raised |-> fb.err]
        ELSE IF i > 0 \/ used = 0
        THEN [res |-> Ok(read + used), buf |-> nbuf, pos |-> p + used,
              faults |-> fs, raised |-> ""]
        ELSE ReadUntil_StripDelim(delim, d, p + used, fs, nbuf, read + used)

\* read_until that consumes the whole block it was handed, not only the bytes
\* up to the delimiter it found.
RECURSIVE ReadUntil_ConsumeAll(_, _, _, _, _, _)
ReadUntil_ConsumeAll(delim, d, p, fs, buf, read) ==
    LET fb == FillBuf(d, p, fs)
        i == Memchr(delim, fb.available)
        used == IF i > 0 THEN i ELSE Len(fb.available)
        nbuf == buf \o SubSeq(fb.available, 1, used)
    IN  IF ~fb.ok /\ fb.err = Interrupted
        THEN ReadUntil_ConsumeAll(delim, d, p, Surface(fs, p), buf, read)
        ELSE IF ~fb.ok
        THEN [res |-> Err(fb.err), buf |-> buf, pos |-> p,
              faults |-> Surface(fs, p), raised |-> fb.err]
        ELSE IF i > 0 \/ used = 0
        THEN [res |-> Ok(read + used), buf |-> nbuf,
              pos |-> p + Len(fb.available), faults |-> fs, raised |-> ""]
        ELSE ReadUntil_ConsumeAll(delim, d, p + used, fs, nbuf, read + used)

\* read_until that takes an interrupted fill_buf for the end of the data.
RECURSIVE ReadUntil_InterruptedAsEof(_, _, _, _, _, _)
ReadUntil_InterruptedAsEof(delim, d, p, fs, buf, read) ==
    LET fb == FillBuf(d, p, fs)
        i == Memchr(delim, fb.available)
        used == IF i > 0 THEN i ELSE Len(fb.available)
        nbuf == buf \o SubSeq(fb.available, 1, used)
    IN  IF ~fb.ok /\ fb.err = Interrupted
        THEN [res |-> Ok(read), buf |-> buf, pos |-> p,
              faults |-> Surface(fs, p), raised |-> ""]
        ELSE IF ~fb.ok
        THEN [res |-> Err(fb.err), buf |-> buf, pos |-> p,
              faults |-> Surface(fs, p), raised |-> fb.err]
        ELSE IF i > 0 \/ used = 0
        THEN [res |-> Ok(read + used), buf |-> nbuf, pos |-> p + used,
              faults |-> fs, raised |-> ""]
        ELSE ReadUntil_InterruptedAsEof(delim, d, p + used, fs, nbuf, read + used)

\* BufRead::read_until(delim, buf) from position p, `read` bytes appended so
\* far: the result, the buffer, and the source's position and faults after.
\* Each turn of the loop calls fill_buf once and works on the block it got;
\* an interrupted fill_buf is tried again, any other fault ends the call.
RECURSIVE ReadUntil(_, _, _, _, _, _)
ReadUntil(delim, d, p, fs, buf, read) ==
    LET Loop(fb) ==
            LET i == Memchr(delim, fb.available)
                used == IF i > 0 THEN i ELSE Len(fb.available)
                nbuf == buf \o SubSeq(fb.available, 1, used)
            IN  IF ~fb.ok /\ fb.err = Interrupted
                THEN ReadUntil(delim, d, p, Surface(fs, p), buf, read)
                ELSE IF ~fb.ok
                THEN [res |-> Err(fb.err), buf |-> buf, pos |-> p,
                      faults |-> Surface(fs, p), raised |-> fb.err]
                ELSE IF i > 0 \/ used = 0
                THEN [res |-> Ok(read + used), buf |-> nbuf, pos |-> p + used,
                      faults |-> fs, raised |-> ""]
                ELSE ReadUntil(delim, d, p + used, fs, nbuf, read + used)
    IN  CHOOSE r \in {Loop(fb) : fb \in {FillBuf(d, p, fs)}} : TRUE

\* read_line that reports InvalidData even when the read itself failed.
ReadLine_MaskFault(d, p, fs, buf) ==
    LET r == ReadUntil(NEWLINE, d, p, fs, buf, 0)
        appended == SubSeq(r.buf, Len(buf) + 1, Len(r.buf))
    IN  IF Utf8Valid(appended)
        THEN r
        ELSE [r EXCEPT !.buf = buf, !.res = Err(InvalidData)]

\* read_line that hands the bytes over without checking them.
ReadLine_NoValidate(d, p, fs, buf) == ReadUntil(NEWLINE, d, p, fs, buf, 0)

\* read_line that ends a line at the NUL byte.
ReadLine_SplitOnNul(d, p, fs, buf) ==
    LET r == ReadUntil(ZERO, d, p, fs, buf, 0)
        appended == SubSeq(r.buf, Len(buf) + 1, Len(r.buf))
    IN  IF Utf8Valid(appended)
        THEN r
        ELSE [r EXCEPT !.buf = buf,
                       !.res = IF r.res.ok THEN Err(InvalidData) ELSE r.res]

\* BufRead::read_line(buf): read_until(b'\n') into the string's bytes, then the
\* appended bytes must be UTF-8; if they are not the string is cut back to its
\* old length and the call fails with InvalidData, unless the read failed.
ReadLine(d, p, fs, buf) ==
    LET r == ReadUntil(NEWLINE, d, p, fs, buf, 0)
        appended == SubSeq(r.buf, Len(buf) + 1, Len(r.buf))
    IN  IF Utf8Valid(appended)
        THEN r
        ELSE [r EXCEPT !.buf = buf,
                       !.res = IF r.res.ok THEN Err(InvalidData) ELSE r.res]

\* ------------------------------------------------------------- the items
None == [kind |-> "None", chunk |-> <<>>, err |-> ""]
SomeOk(c) == [kind |-> "Ok", chunk |-> c, err |-> ""]
SomeErr(e) == [kind |-> "Err", chunk |-> <<>>, err |-> e]
NoPull == [kind |-> "NoPull", chunk |-> <<>>, err |-> ""]

\* The match of Lines::next that ends the sequence on a failed read.
LinesMatch_ErrAsNone(r) ==
    IF r.res.ok
    THEN IF r.res.n = 0 THEN None ELSE SomeOk(r.buf)
    ELSE None

\* The match of Lines::next that reports the end of the data as a failure.
LinesMatch_EofAsErr(r) ==
    IF r.res.ok
    THEN IF r.res.n = 0 THEN SomeErr("UnexpectedEof") ELSE SomeOk(r.buf)
    ELSE SomeErr(r.res.err)

\* The match of Lines::next on what read_line returned.
LinesMatch(r) ==
    IF r.res.ok
    THEN IF r.res.n = 0 THEN None ELSE SomeOk(r.buf)
    ELSE SomeErr(r.res.err)

\* The match of ZLines::next without its Ok(0) arm.
ZLinesMatch_OkZero(r) ==
    IF r.res.ok THEN SomeOk(r.buf) ELSE SomeErr(r.res.err)

\* The match of ZLines::next on what read_until returned.
ZLinesMatch(r) ==
    IF r.res.ok
    THEN IF r.res.n = 0 THEN None ELSE SomeOk(r.buf)
    ELSE SomeErr(r.res.err)

\* ------------------------------------------------------------------ Init
FaultMaps(n) ==
    UNION {[P -> IoCauses] : P \in {Q \in SUBSET (0..n) : Cardinality(Q) <= MaxFaults}}

Init ==
    /\ iter = "none"
    /\ data \in SeqsUpTo(Bytes, MaxLen)
    /\ pos = 0
    /\ faults \in FaultMaps(Len(data))
    /\ last = NoPull
    /\ prev = 0
    /\ raised = ""
    /\ out = <<>>
    /\ dropped = {}

\* --------------------------------------------------------------- actions
\* lines(reader): wrap the source in a Lines.
lines ==
    /\ iter = "none"
    /\ iter' = "lines"
    /\ UNCHANGED <<data, pos, faults, last, prev, raised, out, dropped>>

\* zlines(buf): wrap the source in a ZLines.
zlines ==
    /\ iter = "none"
    /\ iter' = "zlines"
    /\ UNCHANGED <<data, pos, faults, last, prev, raised, out, dropped>>

\* What a pull leaves behind, given what the read returned and the item.
Pulled(r, item) ==
    /\ pos' = r.pos
    /\ faults' = r.faults
    /\ last' = item
    /\ prev' = pos
    /\ raised' = r.raised
    /\ out' = IF item.kind = "Ok"
              THEN Append(out, [at |-> pos, chunk |-> item.chunk])
              ELSE out
    /\ dropped' = IF item.kind = "Err"
                  THEN dropped \cup ((pos + 1)..r.pos)
                  ELSE dropped
    /\ UNCHANGED <<iter, data>>

\* Lines::next
LinesNext ==
    /\ iter = "lines"
    /\ \E r \in {ReadLine(data, pos, faults, <<>>)} :
         Pulled(r, LinesMatch(r))

\* ZLines::next
ZLinesNext ==
    /\ iter = "zlines"
    /\ \E r \in {ReadUntil(ZERO, data, pos, faults, <<>>, 0)} :
         Pulled(r, ZLinesMatch(r))

Next == lines \/ zlines \/ LinesNext \/ ZLinesNext

Spec == Init /\ [][Next]_vars

\* The same program over a source that never faults.
InitNoFault == Init /\ DOMAIN faults = {}

SpecNoFault == InitNoFault /\ [][Next]_vars

\* The same, with a caller that keeps pulling: it constructs an iterator and
\* calls next() again as long as that changes anything.
SpecNoFaultFair == InitNoFault /\ [][Next]_vars /\ WF_vars(Next)

\* ------------------------------------------------- what the claims speak of
\* The delimiter of the iterator in use.
Delim == IF iter = "lines" THEN NEWLINE ELSE ZERO

EndsWith(s, b) == s # <<>> /\ s[Len(s)] = b

Occurrences(b, s) == Cardinality({i \in 1..Len(s) : s[i] = b})

\* The chunks yielded so far, concatenated in the order yielded.
RECURSIVE Concat(_)
Concat(chunks) ==
    IF chunks = <<>> THEN <<>>
    ELSE chunks[1].chunk \o Concat(Tail(chunks))

\* The pulls have reached end-of-sequence.
AtEnd == last.kind = "None"

\* The bytes the source still held when the last pull started.
Remaining == SubSeq(data, prev + 1, Len(data))

\* The shortest prefix of s that ends with b, all of s when b is not in s.
ShortestPrefix(b, s) ==
    IF \E i \in 1..Len(s) : s[i] = b
    THEN SubSeq(s, 1, CHOOSE i \in 1..Len(s) :
                        s[i] = b /\ \A j \in 1..(i - 1) : s[j] # b)
    ELSE s

\* C1: pulled to end-of-sequence over a source that never faults, the chunks
\* yielded, concatenated in order, are exactly the bytes the source held.
C1_RoundTrip == AtEnd => Concat(out) = data

\* C2: every chunk but the last ends with the delimiter, and at
\* end-of-sequence the last chunk ends with it iff the input does.
C2_TerminatorPlacement ==
    /\ \A k \in 1..(Len(out) - 1) : EndsWith(out[k].chunk, Delim)
    /\ (AtEnd /\ out # <<>>) =>
         (EndsWith(out[Len(out)].chunk, Delim) <=> EndsWith(data, Delim))

\* C3: a pull over remaining bytes during which the source does not fault
\* returns Some(Ok(chunk)), chunk being the shortest prefix of the remaining
\* bytes that ends with the delimiter, or all of them when it does not occur;
\* the delimiter is nowhere in the chunk but at its end.
C3_SinglePull ==
    (last.kind # "NoPull" /\ prev < Len(data) /\ raised = "") =>
        /\ last = SomeOk(ShortestPrefix(Delim, Remaining))
        /\ \A i \in 1..(Len(last.chunk) - 1) : last.chunk[i] # Delim

\* C4: at end-of-sequence the number of chunks yielded is the number of
\* delimiters in the input, plus one for an unterminated trailing fragment,
\* which is then the last chunk yielded.
C4_ChunkCount ==
    AtEnd =>
        LET dangling == data # <<>> /\ ~EndsWith(data, Delim)
        IN  /\ Len(out) = Occurrences(Delim, data) + (IF dangling THEN 1 ELSE 0)
            /\ dangling =>
                 /\ out # <<>>
                 /\ ~EndsWith(out[Len(out)].chunk, Delim)
                 /\ out[Len(out)].at + Len(out[Len(out)].chunk) = Len(data)

\* C5: over an empty source that does not fault every pull, the first
\* included, returns None, and no chunk is yielded.
C5_EmptyInput ==
    (data = <<>> /\ last.kind # "NoPull") => (last = None /\ out = <<>>)

C5_Witness == data = <<>> /\ iter = "zlines" /\ last = None

\* C6: a pull during which the source faults, also after it has delivered
\* bytes on that pull, returns Some(Err(cause)) with the source's own fault:
\* not None, not an Ok chunk of the bytes read so far, not a later pull.
C6_FaultPropagates == raised # "" => last = SomeErr(raised)

C6_Witness == raised # "" /\ pos > prev /\ last.kind = "Err"

\* The bytes of s at the indices in I, in order.
RECURSIVE KeepFrom(_, _, _)
KeepFrom(s, I, k) ==
    IF k > Len(s) THEN <<>>
    ELSE (IF k \in I THEN <<s[k]>> ELSE <<>>) \o KeepFrom(s, I, k + 1)

Keep(s, I) == KeepFrom(s, I, 1)

\* C7 as stated: every byte consumed from the source is, exactly once and in
\* stream order, in the chunks yielded.
C7_NoLoss == Concat(out) = SubSeq(data, 1, pos)

\* C7 amended: the chunks yielded are, once each and in stream order, the
\* bytes consumed from the source less the bytes consumed by the pulls that
\* returned a failure; those are discarded and never yielded later.
C7_NoLossButDiscarded ==
    /\ dropped \subseteq 1..pos
    /\ Concat(out) = Keep(data, (1..pos) \ dropped)

C7_Witness == iter = "zlines" /\ dropped # {} /\ last.kind = "Ok"

\* C8: a chunk yielded by lines is valid UTF-8 and is exactly the bytes read
\* from the source on that pull; a chunk yielded by zlines is exactly the raw
\* bytes read on that pull.
C8_ChunkRepresentation ==
    last.kind = "Ok" =>
        /\ last.chunk = SubSeq(data, prev + 1, pos)
        /\ iter = "lines" => Utf8Valid(last.chunk)

C8_Witness ==
    /\ iter = "lines"
    /\ last.kind = "Ok"
    /\ \E i \in 1..Len(last.chunk) : last.chunk[i] >= 128

\* C9: every failure a pull returns is the fault the source raised on that
\* pull, so over a source that never faults no pull returns Some(Err(_)).
C9_OnlySourceFaults == last.kind = "Err" => (raised # "" /\ last.err = raised)

\* The position just after the k-th chunk yielded.
ChunkEnd(k) == out[k].at + Len(out[k].chunk)

\* What C10 says of the single pull: Some(Ok(chunk)) advances the position by
\* len(chunk), the chunk being the bytes in between; None leaves it unchanged.
PullAccounting ==
    /\ last.kind = "Ok" =>
         /\ pos = prev + Len(last.chunk)
         /\ \A i \in 1..Len(last.chunk) : last.chunk[i] = data[prev + i]
    /\ last.kind = "None" => pos = prev

\* C10 as stated: the single pull's accounting, and the k-th chunk starts
\* exactly where the (k-1)-th ended.
C10_PositionAccounting ==
    /\ PullAccounting
    /\ \A k \in 2..Len(out) : out[k].at = ChunkEnd(k - 1)

\* C10 amended: the single pull's accounting, and the k-th chunk starts where
\* the (k-1)-th ended or past bytes that pulls returning a failure consumed
\* in between; chunks are never reordered and never overlap.
C10_PositionAccountingWithFailures ==
    /\ PullAccounting
    /\ \A k \in 1..Len(out) :
         LET before == IF k = 1 THEN 0 ELSE ChunkEnd(k - 1)
         IN  /\ before <= out[k].at
             /\ (before + 1)..out[k].at \subseteq dropped

C10_Witness ==
    /\ Len(out) >= 2
    /\ out[2].at > ChunkEnd(1)
    /\ last.kind = "Ok"

\* C11: a pull returns None exactly when the source's read took zero bytes
\* and did not fail; so no chunk yielded is empty, and None is returned only
\* with the source fully consumed.
C11_NoneIffZeroBytes ==
    /\ last.kind # "NoPull" => (last = None <=> (pos = prev /\ raised = ""))
    /\ \A k \in 1..Len(out) : out[k].chunk # <<>>
    /\ AtEnd => pos = Len(data)

C11_Witness == AtEnd /\ iter = "lines" /\ Len(out) = 1 /\ prev = Len(data)

\* C12: only the iterator's own delimiter ends a chunk, on every pull alike:
\* each chunk yielded is the source's bytes as they are (a newline in zlines,
\* a NUL or a carriage return in lines, included), holds the delimiter nowhere
\* but at its end, and stops short of the end of the data only after the
\* delimiter.
C12_OnlyOwnDelimiter ==
    \A k \in 1..Len(out) :
        LET c == out[k].chunk
        IN  /\ c = SubSeq(data, out[k].at + 1, ChunkEnd(k))
            /\ \A i \in 1..(Len(c) - 1) : c[i] # Delim
            /\ EndsWith(c, Delim) \/ ChunkEnd(k) = Len(data)

C12_Witness ==
    /\ iter = "lines"
    /\ Len(out) = 1
    /\ out[1].chunk = <<0, 13, 10>>

\* C13: over a finite source that never faults, a caller that keeps pulling
\* eventually gets None; every pull that yields a chunk consumes at least one
\* byte, so a source of n bytes yields at most n chunks.
C13_Termination ==
    /\ <>AtEnd
    /\ [](last.kind = "Ok" => pos > prev)
    /\ [](Len(out) <= Len(data))

C13_Witness == AtEnd /\ Len(data) >= 2 /\ Len(out) = Len(data)

\* The bytes the source holds from its current position on.
Unread == SubSeq(data, pos + 1, Len(data))

\* C14: a pull that returned Some(Err(_)) does not end the sequence: the next
\* pull reads afresh from the source's current position and, when the source
\* has bytes and does not fault, yields Some(Ok(chunk)) with the chunk that
\* starts there.
C14_NoLatching ==
    [][(last.kind = "Err" /\ pos < Len(data) /\ raised' = "") =>
         /\ last'.kind = "Ok"
         /\ prev' = pos
         /\ last'.chunk = ShortestPrefix(Delim, Unread)]_vars

\* C15: once a pull has returned None, over a source whose data does not
\* grow, every later pull returns None again, leaves the source's position
\* where it was and yields nothing.
C15_StableEnd ==
    [][AtEnd => (last' = None /\ pos' = pos /\ out' = out)]_vars

C15_Witness == AtEnd /\ pos = Len(data) /\ prev = pos /\ Len(out) = 2

====
